---- MODULE Spec2Model ----
(***************************************************************************)
(* Model of blitiri.com.ar/go/systemd (systemd.go): the lock-guarded       *)
(* parse of LISTEN_PID / LISTEN_FDS / LISTEN_FDNAMES and the accessors     *)
(* Listeners, Files, OneListener and Listen built on top of it.            *)
(*                                                                         *)
(* Strings are sequences of one-character strings, so strconv.Atoi,        *)
(* strings.Split and strings.Join are computed character by character.     *)
(***************************************************************************)
EXTENDS Integers, Sequences, FiniteSets, TLC

\* ------------------------------------------------------------------ bounds
\* Largest descriptor count written in LISTEN_FDS by the supervisor.
MaxFDs == 2
\* Number of goroutines the model carries; Init lets nthr of them call.
MaxThreads == 2

\* ------------------------------------------------------------------ state
VARIABLES
    env,          \* the process environment: variable name -> string
    sock,         \* the descriptors that are listening stream sockets
    cloexec,      \* the descriptors whose close-on-exec flag is set
    nalloc,       \* number of file and listener objects created so far
    files,        \* var files map[string][]*os.File
    listeners,    \* var listeners map[string][]net.Listener
    parseError,   \* var parseError error
    listenError,  \* var listenError error
    mutex,        \* var mutex sync.Mutex: 0 when free, else the holder
    nthr,         \* number of goroutines that call the accessors
    pc,           \* where each goroutine is in its call
    cur,          \* the call each goroutine is making: [op, arg]
    loc,          \* the local variables of each goroutine's parse()
    ret,          \* what each goroutine's call returns
    first         \* how the first parse of the process ended

vars == <<env, sock, cloexec, nalloc, files, listeners, parseError,
          listenError, mutex, nthr, pc, cur, loc, ret, first>>

cache == <<files, listeners, parseError, listenError>>

\* --------------------------------------------------------- program values
firstFD == 3
Getpid == 7

EnvNames == {"LISTEN_PID", "LISTEN_FDS", "LISTEN_FDNAMES"}

Digits == <<"0", "1", "2", "3", "4", "5", "6", "7", "8", "9">>

IsDigit(c) == \E d \in 1..10 : Digits[d] = c

DigitVal(c) == (CHOOSE d \in 1..10 : Digits[d] = c) - 1

RECURSIVE ParseDigitsLenient(_, _)
\* ParseDigits as C's atoi does it: stop at the first non-digit, no error.
ParseDigitsLenient(s, acc) ==
    IF s = <<>> \/ ~IsDigit(Head(s)) THEN [err |-> FALSE, n |-> acc]
    ELSE ParseDigitsLenient(Tail(s), acc * 10 + DigitVal(Head(s)))

RECURSIVE ParseDigits(_, _)
\* The digit loop of strconv.Atoi: [err, n] for the digits of s after acc.
ParseDigits(s, acc) ==
    IF s = <<>> THEN [err |-> FALSE, n |-> acc]
    ELSE IF ~IsDigit(Head(s)) THEN [err |-> TRUE, n |-> 0]
    ELSE ParseDigits(Tail(s), acc * 10 + DigitVal(Head(s)))

\* strconv.Atoi: optional sign, then at least one decimal digit.
Atoi(s) ==
    IF s = <<>> THEN [err |-> TRUE, n |-> 0]
    ELSE IF Head(s) \in {"-", "+"}
         THEN IF Tail(s) = <<>> THEN [err |-> TRUE, n |-> 0]
              ELSE LET r == ParseDigits(Tail(s), 0)
                   IN  IF r.err THEN r
                       ELSE [err |-> FALSE,
                             n |-> IF Head(s) = "-" THEN 0 - r.n ELSE r.n]
         ELSE ParseDigits(s, 0)

RECURSIVE Itoa(_)
\* strconv.Itoa for the non-negative numbers the tests write.
Itoa(n) ==
    IF n < 10 THEN <<Digits[n + 1]>>
    ELSE Itoa(n \div 10) \o <<Digits[(n % 10) + 1]>>

RECURSIVE SplitFrom(_, _)
\* strings.Split(s, ":") with piece the name collected so far.
SplitFrom(s, piece) ==
    IF s = <<>> THEN <<piece>>
    ELSE IF Head(s) = ":" THEN <<piece>> \o SplitFrom(Tail(s), <<>>)
    ELSE SplitFrom(Tail(s), Append(piece, Head(s)))

Split(s) == SplitFrom(s, <<>>)

RECURSIVE Join(_)
\* strings.Join(names, ":").
Join(names) ==
    IF names = <<>> THEN <<>>
    ELSE IF Len(names) = 1 THEN names[1]
    ELSE names[1] \o <<":">> \o Join(Tail(names))

HasPrefix(s, c) == Len(s) >= 1 /\ s[1] = c

\* os.Getenv: the empty string for a variable that is not set.
Getenv(e, k) == IF k \in DOMAIN e THEN e[k] ELSE <<>>

\* os.Setenv.
Setenv(e, k, v) == [x \in DOMAIN e \cup {k} |-> IF x = k THEN v ELSE e[x]]

\* Unsetenv that leaves LISTEN_FDNAMES in the environment.
UnsetenvKeepNames(e, k) ==
    IF k = "LISTEN_FDNAMES" THEN e ELSE [x \in DOMAIN e \ {k} |-> e[x]]

\* os.Unsetenv.
Unsetenv(e, k) == [x \in DOMAIN e \ {k} |-> e[x]]

\* ----------------------------------------------------------- value shapes
\* A Go error value; NoError is the nil error.
NoError == [kind |-> "nil", str |-> <<>>, fd |-> 0]

ErrPIDMismatch == [kind |-> "$LISTEN_PID != our PID", str |-> <<>>, fd |-> 0]

ErrBadPID(pidStr) ==
    [kind |-> "error converting $LISTEN_PID", str |-> pidStr, fd |-> 0]

ErrBadFDS(nfdsStr) ==
    [kind |-> "error reading $LISTEN_FDS", str |-> nfdsStr, fd |-> 0]

ErrBadNames == [kind |-> "Incorrect LISTEN_FDNAMES", str |-> <<>>, fd |-> 0]

ErrListen(fd) ==
    [kind |-> "Error making listener out of fd", str |-> <<>>, fd |-> fd]

ErrNotFound(name) ==
    [kind |-> "systemd socket not found", str |-> name, fd |-> 0]

ErrBind == [kind |-> "net.Listen failed", str |-> <<>>, fd |-> 0]

\* A Go map: the nil map, or a function from names to slices.
NilMap == [isnil |-> TRUE, m |-> <<>>]

EmptyMap == [isnil |-> FALSE, m |-> <<>>]

\* m[k] of Go: the nil (empty) slice for a missing key or a nil map.
MapGet(mp, k) == IF k \in DOMAIN mp.m THEN mp.m[k] ELSE <<>>

\* len(m) of Go: the number of keys, 0 for the nil map.
MapLen(mp) == Cardinality(DOMAIN mp.m)

\* MapAppend putting the new element in front of the slice.
MapPrepend(mp, k, v) ==
    [isnil |-> FALSE,
     m |-> [x \in DOMAIN mp.m \cup {k} |->
               IF x = k THEN <<v>> \o MapGet(mp, k) ELSE mp.m[x]]]

\* m[k] = append(m[k], v).
MapAppend(mp, k, v) ==
    [isnil |-> FALSE,
     m |-> [x \in DOMAIN mp.m \cup {k} |->
               IF x = k THEN Append(MapGet(mp, k), v) ELSE mp.m[x]]]

\* The nil net.Listener.
NilLis == [src |-> "nil", fd |-> 0, file |-> 0, id |-> 0]

\* os.NewFile(fd, "[systemd-fd-<fd>-<name>]"); id is the object's identity.
NewFile(fd, name, id) == [fd |-> fd, name |-> name, id |-> id]

\* The listener net.FileListener builds from file f.
FileListener(f, id) == [src |-> "file", fd |-> f.fd, file |-> f.id, id |-> id]

\* The listener net.Listen binds at a fresh address.
BoundLis == [src |-> "bind", fd |-> 0, file |-> 0, id |-> 0]

\* ------------------------------------------------- parse: the validation
\* Parsed testing len(files) != 0 instead of files != nil.
ParsedNonEmpty(fs) == MapLen(fs) # 0

\* "if files != nil { return }": the parse has already populated the maps.
Parsed(fs) == ~fs.isnil

\* EnvEmpty returning only when both variables are missing.
EnvEmptyBoth(pidStr, nfdsStr) == pidStr = <<>> /\ nfdsStr = <<>>

\* "Nothing to do if the variables are not set."
EnvEmpty(pidStr, nfdsStr) == pidStr = <<>> \/ nfdsStr = <<>>

\* The names of the descriptors: LISTEN_FDNAMES split on ":", or nfds
\* empty names when it is not set.
ResolveNames(fdNamesStr, nfds) ==
    IF fdNamesStr = <<>>
    THEN IF nfds <= 0 THEN <<>> ELSE [i \in 1..nfds |-> <<>>]
    ELSE Split(fdNamesStr)

\* NamesMismatch counting the pieces of LISTEN_FDNAMES even when it is unset.
NamesMismatchUnset(fdNamesStr, fdNames, nfds) ==
    nfds > 0 /\ Len(Split(fdNamesStr)) # nfds

\* NamesMismatch accepting more names than descriptors.
NamesMismatchFewer(fdNamesStr, fdNames, nfds) ==
    fdNamesStr # <<>> /\ nfds > 0 /\ Len(fdNames) < nfds

\* NamesMismatch without the "nfds > 0" condition.
NamesMismatchAtZero(fdNamesStr, fdNames, nfds) ==
    fdNamesStr # <<>> /\ Len(fdNames) # nfds

\* "If LISTEN_FDNAMES is set at all, it should have as many names as we
\* have descriptors."
NamesMismatch(fdNamesStr, fdNames, nfds) ==
    fdNamesStr # <<>> /\ nfds > 0 /\ Len(fdNames) # nfds

\* CheckPID reporting a foreign PID as a conversion error.
CheckPIDConflated(pidStr) ==
    LET pid == Atoi(pidStr)
    IN  IF pid.err \/ pid.n # Getpid THEN ErrBadPID(pidStr) ELSE NoError

\* The PID checks: the error they leave in parseError, NoError when they pass.
CheckPID(pidStr) ==
    LET pid == Atoi(pidStr)
    IN  IF pid.err THEN ErrBadPID(pidStr)
        ELSE IF pid.n # Getpid THEN ErrPIDMismatch
        ELSE NoError

\* Validate looking at LISTEN_FDS before it looks at LISTEN_PID.
ValidateFDSFirst(pidStr, nfdsStr, fdNamesStr) ==
    LET nfds    == Atoi(nfdsStr)
        fdNames == ResolveNames(fdNamesStr, nfds.n)
        none    == [outcome |-> "empty", err |-> NoError, nfds |-> 0,
                    fdNames |-> <<>>]
    IN  IF EnvEmpty(pidStr, nfdsStr) THEN none
        ELSE IF nfds.err
             THEN [none EXCEPT !.outcome = "fail", !.err = ErrBadFDS(nfdsStr)]
        ELSE IF CheckPID(pidStr) # NoError
             THEN [none EXCEPT !.outcome = "fail", !.err = CheckPID(pidStr)]
        ELSE IF NamesMismatch(fdNamesStr, fdNames, nfds.n)
             THEN [none EXCEPT !.outcome = "fail", !.err = ErrBadNames]
        ELSE [outcome |-> "go", err |-> NoError, nfds |-> nfds.n,
              fdNames |-> fdNames]

\* The validation of the three strings, in the order parse makes it.
\* outcome "empty": return, nothing set; "fail": parseError set to err;
\* "go": the descriptors nfds and names fdNames are materialised.
Validate(pidStr, nfdsStr, fdNamesStr) ==
    LET nfds    == Atoi(nfdsStr)
        fdNames == ResolveNames(fdNamesStr, nfds.n)
        none    == [outcome |-> "empty", err |-> NoError, nfds |-> 0,
                    fdNames |-> <<>>]
    IN  IF EnvEmpty(pidStr, nfdsStr) THEN none
        ELSE IF CheckPID(pidStr) # NoError
             THEN [none EXCEPT !.outcome = "fail", !.err = CheckPID(pidStr)]
        ELSE IF nfds.err
             THEN [none EXCEPT !.outcome = "fail", !.err = ErrBadFDS(nfdsStr)]
        ELSE IF NamesMismatch(fdNamesStr, fdNames, nfds.n)
             THEN [none EXCEPT !.outcome = "fail", !.err = ErrBadNames]
        ELSE [outcome |-> "go", err |-> NoError, nfds |-> nfds.n,
              fdNames |-> fdNames]

\* ------------------------------------------------ the accessors' results
\* What a call returns: a map (Listeners, Files) or a listener
\* (OneListener, Listen), and an error.
Result(m, l, err) == [m |-> m, l |-> l, err |-> err]

ListenersResult(ls, pe, le) ==
    IF pe # NoError THEN Result(ls, NilLis, pe) ELSE Result(ls, NilLis, le)

\* OneListenerResult returning the last listener of the name.
OneListenerResultLast(ls, pe, le, name) ==
    IF pe # NoError THEN Result(NilMap, NilLis, pe)
    ELSE IF le # NoError THEN Result(NilMap, NilLis, le)
    ELSE IF Len(MapGet(ls, name)) < 1 THEN Result(NilMap, NilLis, NoError)
    ELSE Result(NilMap, MapGet(ls, name)[Len(MapGet(ls, name))], NoError)

\* OneListenerResult reporting the conversion error only when the name has
\* no listener.
OneListenerResultLenient(ls, pe, le, name) ==
    IF pe # NoError THEN Result(NilMap, NilLis, pe)
    ELSE IF Len(MapGet(ls, name)) >= 1
         THEN Result(NilMap, MapGet(ls, name)[1], NoError)
    ELSE Result(NilMap, NilLis, le)

OneListenerResult(ls, pe, le, name) ==
    IF pe # NoError THEN Result(NilMap, NilLis, pe)
    ELSE IF le # NoError THEN Result(NilMap, NilLis, le)
    ELSE IF Len(MapGet(ls, name)) < 1 THEN Result(NilMap, NilLis, NoError)
    ELSE Result(NilMap, MapGet(ls, name)[1], NoError)

\* FilesResult reporting the conversion error as Listeners does.
FilesResultListenError(fs, pe) ==
    Result(fs, NilLis, IF pe # NoError THEN pe ELSE listenError)

FilesResult(fs, pe) == Result(fs, NilLis, pe)

\* ListenResult reporting "not found" whenever there is no listener.
ListenResultMasked(ls, pe, le, laddr) ==
    LET name == Tail(laddr)
        one  == OneListenerResult(ls, pe, le, name)
    IN  IF one.l = NilLis
        THEN Result(NilMap, NilLis, ErrNotFound(name))
        ELSE one

\* Listen with an address that begins with "&".
ListenResult(ls, pe, le, laddr) ==
    LET name == Tail(laddr)
        one  == OneListenerResult(ls, pe, le, name)
    IN  IF one.l = NilLis /\ one.err = NoError
        THEN Result(NilMap, NilLis, ErrNotFound(name))
        ELSE one

\* ----------------------------------------------------------------- inputs
Threads == 1..MaxThreads

\* The descriptors the supervisor may have passed.
FDRange == firstFD..(firstFD + MaxFDs - 1)

PidStrs == {<<>>, <<"a">>, <<"1">>, <<"1", "2">>, Itoa(Getpid)}

FdsStrs == {<<>>, <<"a">>, <<"-", "1">>} \cup {Itoa(n) : n \in 0..MaxFDs}

NameParts == {<<>>, <<"a">>}

NamesStrs ==
    {Join(ns) : ns \in UNION {[1..k -> NameParts] : k \in 1..(MaxFDs + 1)}}

\* The LISTEN_FDNAMES values the host program writes: none, or one to
\* MaxFDs times the name "a".
HostNames == {<<>>} \cup {Join([i \in 1..k |-> <<"a">>]) : k \in 1..MaxFDs}

\* The names callers look up, and the addresses they pass to Listen.
LookupNames == {<<>>, <<"a">>, <<"b">>}

Addrs == {<<"&">> \o n : n \in LookupNames} \cup {<<":", "0">>}

Calls ==
    {[op |-> "Listeners", arg |-> <<>>], [op |-> "Files", arg |-> <<>>]}
    \cup {[op |-> "OneListener", arg |-> n] : n \in LookupNames}
    \cup {[op |-> "Listen", arg |-> a] : a \in Addrs}

\* <<>> for a variable that is not set, <<v>> for one set to v.
Opt(S) == {<<>>} \cup {<<v>> : v \in S}

MkEnv(p, f, n) ==
    LET o == [k \in EnvNames |->
                IF k = "LISTEN_PID" THEN p
                ELSE IF k = "LISTEN_FDS" THEN f ELSE n]
    IN  [k \in {x \in EnvNames : o[x] # <<>>} |-> o[k][1]]

NoCall == [op |-> "none", arg |-> <<>>]

Loc0 ==
    [outcome |-> "none", fresh |-> FALSE, pidStr |-> <<>>, nfdsStr |-> <<>>,
     fdNamesStr |-> <<>>, fdNames |-> <<>>, nfds |-> 0, i |-> 0]

NoResult == Result(NilMap, NilLis, NoError)

\* The state of the package when the process starts.
InitWith(n, names) ==
    /\ \E p \in Opt(PidStrs), f \in Opt(FdsStrs), ns \in Opt(names) :
          env = MkEnv(p, f, ns)
    /\ sock \in SUBSET FDRange
    /\ cloexec = {}
    /\ nalloc = 0
    /\ files = NilMap
    /\ listeners = NilMap
    /\ parseError = NoError
    /\ listenError = NoError
    /\ mutex = 0
    /\ nthr = n
    /\ pc = [t \in Threads |-> "idle"]
    /\ cur = [t \in Threads |-> NoCall]
    /\ loc = [t \in Threads |-> Loc0]
    /\ ret = [t \in Threads |-> NoResult]
    /\ first = "unparsed"

Init == InitWith(1, NamesStrs)

\* The start of a process whose host program sets the variables again.
InitSetenv == InitWith(1, HostNames)

\* ---------------------------------------------------------------- actions
\* The host program sets the three variables again between two calls, as
\* the tests' setenv does with os.Setenv.
HostSetenv ==
    /\ \A t \in Threads : pc[t] = "idle"
    /\ \E p \in PidStrs, f \in FdsStrs, ns \in HostNames :
         env' = Setenv(Setenv(Setenv(env, "LISTEN_PID", p),
                              "LISTEN_FDS", f), "LISTEN_FDNAMES", ns)
    /\ UNCHANGED <<sock, cloexec, nalloc, cache, mutex, nthr, pc, cur, loc,
                   ret, first>>

\* Call running the parse for every address given to Listen.
CallAlwaysParse(t) ==
    /\ t <= nthr
    /\ pc[t] = "idle"
    /\ \E c \in Calls :
         /\ cur' = [cur EXCEPT ![t] = c]
         /\ pc' = [pc EXCEPT ![t] = "lock"]
    /\ loc' = [loc EXCEPT ![t] = Loc0]
    /\ ret' = [ret EXCEPT ![t] = NoResult]
    /\ UNCHANGED <<env, sock, cloexec, nalloc, cache, mutex, nthr, first>>

\* A goroutine calls Listeners, Files, OneListener or Listen.
Call(t) ==
    /\ t <= nthr
    /\ pc[t] = "idle"
    /\ \E c \in Calls :
         /\ cur' = [cur EXCEPT ![t] = c]
         /\ pc' = [pc EXCEPT ![t] =
                     IF c.op = "Listen" /\ ~HasPrefix(c.arg, "&")
                     THEN "bind" ELSE "lock"]
    /\ loc' = [loc EXCEPT ![t] = Loc0]
    /\ ret' = [ret EXCEPT ![t] = NoResult]
    /\ UNCHANGED <<env, sock, cloexec, nalloc, cache, mutex, nthr, first>>

\* ParseLock that does not wait for the mutex.
ParseLockNoWait(t) ==
    /\ pc[t] = "lock"
    /\ mutex' = t
    /\ pc' = [pc EXCEPT ![t] = "check"]
    /\ UNCHANGED <<env, sock, cloexec, nalloc, cache, nthr, cur, loc, ret, first>>

\* parse: mutex.Lock().
ParseLock(t) ==
    /\ pc[t] = "lock"
    /\ mutex = 0
    /\ mutex' = t
    /\ pc' = [pc EXCEPT ![t] = "check"]
    /\ UNCHANGED <<env, sock, cloexec, nalloc, cache, nthr, cur, loc, ret, first>>

\* ParseCheck removing the three variables when it returns early.
ParseCheckClearing(t) ==
    /\ pc[t] = "check"
    /\ LET pidStr     == Getenv(env, "LISTEN_PID")
           nfdsStr    == Getenv(env, "LISTEN_FDS")
           fdNamesStr == Getenv(env, "LISTEN_FDNAMES")
           v          == Validate(pidStr, nfdsStr, fdNamesStr)
           fresh      == /\ files.isnil
                         /\ parseError = NoError
                         /\ listenError = NoError
       IN  IF Parsed(files)
           THEN /\ loc' = [loc EXCEPT ![t].outcome = "cached"]
                /\ pc' = [pc EXCEPT ![t] = "unlock"]
                /\ UNCHANGED <<cache, first>>
           ELSE /\ loc' = [loc EXCEPT ![t] =
                             [outcome |-> v.outcome, fresh |-> fresh,
                              pidStr |-> pidStr, nfdsStr |-> nfdsStr,
                              fdNamesStr |-> fdNamesStr,
                              fdNames |-> v.fdNames, nfds |-> v.nfds,
                              i |-> 0]]
                /\ pc' = [pc EXCEPT ![t] =
                            IF v.outcome = "go" THEN "loop" ELSE "unlock"]
                /\ parseError' =
                       IF v.outcome = "fail" THEN v.err ELSE parseError
                /\ files' = IF v.outcome = "go" THEN EmptyMap ELSE files
                /\ listeners' =
                       IF v.outcome = "go" THEN EmptyMap ELSE listeners
                /\ UNCHANGED listenError
                /\ first' = IF first = "unparsed" THEN v.outcome ELSE first
    /\ env' = IF Parsed(files) \/ pc'[t] = "loop" THEN env
              ELSE Unsetenv(Unsetenv(Unsetenv(env, "LISTEN_PID"),
                                     "LISTEN_FDS"), "LISTEN_FDNAMES")
    /\ UNCHANGED <<sock, cloexec, nalloc, mutex, nthr, cur, ret>>

\* parse, from "if files != nil" to the creation of the two maps.
ParseCheck(t) ==
    /\ pc[t] = "check"
    /\ LET pidStr     == Getenv(env, "LISTEN_PID")
           nfdsStr    == Getenv(env, "LISTEN_FDS")
           fdNamesStr == Getenv(env, "LISTEN_FDNAMES")
           v          == Validate(pidStr, nfdsStr, fdNamesStr)
           fresh      == /\ files.isnil
                         /\ parseError = NoError
                         /\ listenError = NoError
       IN  IF Parsed(files)
           THEN /\ loc' = [loc EXCEPT ![t].outcome = "cached"]
                /\ pc' = [pc EXCEPT ![t] = "unlock"]
                /\ UNCHANGED <<cache, first>>
           ELSE /\ loc' = [loc EXCEPT ![t] =
                             [outcome |-> v.outcome, fresh |-> fresh,
                              pidStr |-> pidStr, nfdsStr |-> nfdsStr,
                              fdNamesStr |-> fdNamesStr,
                              fdNames |-> v.fdNames, nfds |-> v.nfds,
                              i |-> 0]]
                /\ pc' = [pc EXCEPT ![t] =
                            IF v.outcome = "go" THEN "loop" ELSE "unlock"]
                /\ parseError' =
                       IF v.outcome = "fail" THEN v.err ELSE parseError
                /\ files' = IF v.outcome = "go" THEN EmptyMap ELSE files
                /\ listeners' =
                       IF v.outcome = "go" THEN EmptyMap ELSE listeners
                /\ UNCHANGED listenError
                /\ first' = IF first = "unparsed" THEN v.outcome ELSE first
    /\ UNCHANGED <<env, sock, cloexec, nalloc, mutex, nthr, cur, ret>>

\* ParseFD keeping the two maps aligned: a nil listener is appended for a
\* descriptor that is not a listening socket.
ParseFDNilListener(t) ==
    /\ pc[t] = "loop"
    /\ loc[t].i < loc[t].nfds
    /\ LET fd   == firstFD + loc[t].i
           name == loc[t].fdNames[loc[t].i + 1]
           f    == NewFile(fd, name, nalloc + 1)
       IN  /\ cloexec' = cloexec \cup {fd}
           /\ files' = MapAppend(files, name, f)
           /\ IF fd \in sock
              THEN /\ listeners' =
                         MapAppend(listeners, name,
                                   FileListener(f, nalloc + 2))
                   /\ nalloc' = nalloc + 2
                   /\ UNCHANGED listenError
              ELSE /\ listenError' = ErrListen(fd)
                   /\ nalloc' = nalloc + 1
                   /\ listeners' = MapAppend(listeners, name, NilLis)
    /\ loc' = [loc EXCEPT ![t].i = loc[t].i + 1]
    /\ UNCHANGED <<env, sock, parseError, mutex, nthr, pc, cur, ret, first>>

\* parse: one iteration of the loop over the descriptors.
ParseFD(t) ==
    /\ pc[t] = "loop"
    /\ loc[t].i < loc[t].nfds
    /\ LET fd   == firstFD + loc[t].i
           name == loc[t].fdNames[loc[t].i + 1]
           f    == NewFile(fd, name, nalloc + 1)
       IN  /\ cloexec' = cloexec \cup {fd}
           /\ files' = MapAppend(files, name, f)
           /\ IF fd \in sock
              THEN /\ listeners' =
                         MapAppend(listeners, name,
                                   FileListener(f, nalloc + 2))
                   /\ nalloc' = nalloc + 2
                   /\ UNCHANGED listenError
              ELSE /\ listenError' = ErrListen(fd)
                   /\ nalloc' = nalloc + 1
                   /\ UNCHANGED listeners
    /\ loc' = [loc EXCEPT ![t].i = loc[t].i + 1]
    /\ UNCHANGED <<env, sock, parseError, mutex, nthr, pc, cur, ret, first>>

\* parse: the loop is over, the three variables are removed.
ParseUnsetenv(t) ==
    /\ pc[t] = "loop"
    /\ loc[t].i >= loc[t].nfds
    /\ env' = Unsetenv(Unsetenv(Unsetenv(env, "LISTEN_PID"), "LISTEN_FDS"),
                       "LISTEN_FDNAMES")
    /\ pc' = [pc EXCEPT ![t] = "unlock"]
    /\ UNCHANGED <<sock, cloexec, nalloc, cache, mutex, nthr, cur, loc, ret, first>>

\* ParseUnlock that leaves the mutex held.
ParseUnlockKeep(t) ==
    /\ pc[t] = "unlock"
    /\ mutex' = mutex
    /\ pc' = [pc EXCEPT ![t] = "read"]
    /\ UNCHANGED <<env, sock, cloexec, nalloc, cache, nthr, cur, loc, ret, first>>

\* parse: the deferred mutex.Unlock().
ParseUnlock(t) ==
    /\ pc[t] = "unlock"
    /\ mutex' = 0
    /\ pc' = [pc EXCEPT ![t] = "read"]
    /\ UNCHANGED <<env, sock, cloexec, nalloc, cache, nthr, cur, loc, ret, first>>

\* The accessor reads the package variables after parse() and builds its
\* result.
AccessorRead(t) ==
    /\ pc[t] = "read"
    /\ ret' = [ret EXCEPT ![t] =
          IF cur[t].op = "Listeners"
          THEN ListenersResult(listeners, parseError, listenError)
          ELSE IF cur[t].op = "Files"
          THEN FilesResult(files, parseError)
          ELSE IF cur[t].op = "OneListener"
          THEN OneListenerResult(listeners, parseError, listenError,
                                 cur[t].arg)
          ELSE ListenResult(listeners, parseError, listenError, cur[t].arg)]
    /\ pc' = [pc EXCEPT ![t] = "ret"]
    /\ UNCHANGED <<env, sock, cloexec, nalloc, cache, mutex, nthr, cur, loc, first>>

\* Listen with an ordinary address: net.Listen binds it, or fails.
NetListen(t) ==
    /\ pc[t] = "bind"
    /\ \E ok \in BOOLEAN :
         ret' = [ret EXCEPT ![t] =
                   IF ok THEN Result(NilMap, BoundLis, NoError)
                   ELSE Result(NilMap, NilLis, ErrBind)]
    /\ pc' = [pc EXCEPT ![t] = "ret"]
    /\ UNCHANGED <<env, sock, cloexec, nalloc, cache, mutex, nthr, cur, loc, first>>

\* The call returns to the host program.
Return(t) ==
    /\ pc[t] = "ret"
    /\ pc' = [pc EXCEPT ![t] = "idle"]
    /\ cur' = [cur EXCEPT ![t] = NoCall]
    /\ loc' = [loc EXCEPT ![t] = Loc0]
    /\ ret' = [ret EXCEPT ![t] = NoResult]
    /\ UNCHANGED <<env, sock, cloexec, nalloc, cache, mutex, nthr, first>>

Next ==
    \/ \E t \in Threads : Call(t)
    \/ \E t \in Threads : ParseLock(t)
    \/ \E t \in Threads : ParseCheck(t)
    \/ \E t \in Threads : ParseFD(t)
    \/ \E t \in Threads : ParseUnsetenv(t)
    \/ \E t \in Threads : ParseUnlock(t)
    \/ \E t \in Threads : AccessorRead(t)
    \/ \E t \in Threads : NetListen(t)
    \/ \E t \in Threads : Return(t)

Spec == Init /\ [][Next]_vars

\* The same program with a host that sets the variables between calls.
NextSetenv == Next \/ HostSetenv

SpecSetenv == InitSetenv /\ [][NextSetenv]_vars

\* -------------------------------------------------- concurrent goroutines
\* The calls of the goroutines that race for the first parse.
ConcCalls ==
    {[op |-> "Listeners", arg |-> <<>>], [op |-> "Files", arg |-> <<>>],
     [op |-> "OneListener", arg |-> <<"a">>],
     [op |-> "Listen", arg |-> <<"&", "a">>]}

\* The environments they start in: LISTEN_PID unset, foreign or own,
\* LISTEN_FDS = MaxFDs, LISTEN_FDNAMES unset or MaxFDs times "a".
ConcEnvs ==
    {MkEnv(p, <<Itoa(MaxFDs)>>, ns) :
        p  \in Opt({<<"1">>, Itoa(Getpid)}),
        ns \in Opt({Join([i \in 1..MaxFDs |-> <<"a">>])})}

\* The start of a process in which MaxThreads goroutines call the package.
InitConc ==
    /\ env \in ConcEnvs
    /\ sock \in {FDRange, FDRange \ {firstFD}}
    /\ cloexec = {}
    /\ nalloc = 0
    /\ files = NilMap
    /\ listeners = NilMap
    /\ parseError = NoError
    /\ listenError = NoError
    /\ mutex = 0
    /\ nthr = MaxThreads
    /\ pc = [t \in Threads |-> "idle"]
    /\ cur = [t \in Threads |-> NoCall]
    /\ loc = [t \in Threads |-> Loc0]
    /\ ret = [t \in Threads |-> NoResult]
    /\ first = "unparsed"

\* A goroutine calls one of ConcCalls.
CallConc(t) ==
    /\ t <= nthr
    /\ pc[t] = "idle"
    /\ \E c \in ConcCalls : cur' = [cur EXCEPT ![t] = c]
    /\ pc' = [pc EXCEPT ![t] = "lock"]
    /\ loc' = [loc EXCEPT ![t] = Loc0]
    /\ ret' = [ret EXCEPT ![t] = NoResult]
    /\ UNCHANGED <<env, sock, cloexec, nalloc, cache, mutex, nthr, first>>

NextConc ==
    \/ \E t \in Threads : CallConc(t)
    \/ \E t \in Threads : ParseLock(t)
    \/ \E t \in Threads : ParseCheck(t)
    \/ \E t \in Threads : ParseFD(t)
    \/ \E t \in Threads : ParseUnsetenv(t)
    \/ \E t \in Threads : ParseUnlock(t)
    \/ \E t \in Threads : AccessorRead(t)
    \/ \E t \in Threads : Return(t)

SpecConc == InitConc /\ [][NextConc]_vars

\* The steps of a goroutine between mutex.Lock() and the return of its
\* accessor; its position enables at most one of them.
Running(t) ==
    \/ ParseCheck(t)
    \/ ParseFD(t)
    \/ ParseUnsetenv(t)
    \/ ParseUnlock(t)
    \/ AccessorRead(t)

\* The concurrent goroutines under the scheduling of the Go runtime: a
\* goroutine that can take a step of parse or of its accessor takes it
\* (the scheduler is preemptive), and a goroutine that waits in
\* mutex.Lock() gets the mutex (sync.Mutex hands it to the longest waiter
\* in starvation mode).  When the host program calls and when it uses the
\* result is not constrained.
Fairness ==
    \A t \in Threads : SF_vars(ParseLock(t)) /\ WF_vars(Running(t))

\* The calls and the starts of the goroutines whose termination is
\* checked: the shortest and the longest accessor, and one environment for
\* each way a first parse can end (absent, foreign pid, valid), with all
\* descriptors sockets or with descriptor firstFD not a socket.
FairCalls ==
    {[op |-> "Files", arg |-> <<>>], [op |-> "Listen", arg |-> <<"&", "a">>]}

FairEnvs ==
    {MkEnv(p, <<Itoa(MaxFDs)>>, <<>>) : p \in Opt({<<"1">>, Itoa(Getpid)})}

InitFair ==
    /\ env \in FairEnvs
    /\ sock \in {FDRange, FDRange \ {firstFD}}
    /\ cloexec = {}
    /\ nalloc = 0
    /\ files = NilMap
    /\ listeners = NilMap
    /\ parseError = NoError
    /\ listenError = NoError
    /\ mutex = 0
    /\ nthr = MaxThreads
    /\ pc = [t \in Threads |-> "idle"]
    /\ cur = [t \in Threads |-> NoCall]
    /\ loc = [t \in Threads |-> Loc0]
    /\ ret = [t \in Threads |-> NoResult]
    /\ first = "unparsed"

\* A goroutine calls one of FairCalls.
CallFair(t) ==
    /\ t <= nthr
    /\ pc[t] = "idle"
    /\ \E c \in FairCalls : cur' = [cur EXCEPT ![t] = c]
    /\ pc' = [pc EXCEPT ![t] = "lock"]
    /\ loc' = [loc EXCEPT ![t] = Loc0]
    /\ ret' = [ret EXCEPT ![t] = NoResult]
    /\ UNCHANGED <<env, sock, cloexec, nalloc, cache, mutex, nthr, first>>

NextFair ==
    \/ \E t \in Threads : CallFair(t)
    \/ \E t \in Threads : ParseLock(t)
    \/ \E t \in Threads : Running(t)
    \/ \E t \in Threads : Return(t)

SpecFair == InitFair /\ [][NextFair]_vars /\ Fairness

\* ------------------------------------------------------------- properties
\* C1: a call to Listeners or Files whose parse runs on an empty cache and
\* reads an empty LISTEN_PID or an empty LISTEN_FDS (either one, whatever
\* the other two variables hold) returns a nil map and a nil error.
C1_EmptyEnvironment ==
    \A t \in Threads :
        (/\ pc[t] = "ret"
         /\ cur[t].op \in {"Listeners", "Files"}
         /\ loc[t].fresh
         /\ (loc[t].pidStr = <<>> \/ loc[t].nfdsStr = <<>>))
        => (ret[t].m = NilMap /\ ret[t].err = NoError)

\* Files returned (nil, nil) with LISTEN_PID empty while LISTEN_FDS and
\* LISTEN_FDNAMES were set.
C1_Witness ==
    \E t \in Threads :
        /\ pc[t] = "ret" /\ cur[t].op = "Files" /\ loc[t].fresh
        /\ loc[t].pidStr = <<>> /\ loc[t].nfdsStr = <<"2">>
        /\ loc[t].fdNamesStr # <<>>
        /\ ret[t].m = NilMap /\ ret[t].err = NoError

\* C2: a call to Listeners, Files or OneListener whose parse reads a
\* LISTEN_PID that is an integer other than the own pid, with LISTEN_FDS
\* set, returns exactly ErrPIDMismatch, whatever LISTEN_FDS and
\* LISTEN_FDNAMES contain.
C2_WrongPID ==
    \A t \in Threads :
        (/\ pc[t] = "ret"
         /\ cur[t].op \in {"Listeners", "Files", "OneListener"}
         /\ loc[t].outcome \notin {"none", "cached"}
         /\ loc[t].nfdsStr # <<>>
         /\ ~Atoi(loc[t].pidStr).err
         /\ Atoi(loc[t].pidStr).n # Getpid)
        => ret[t].err = ErrPIDMismatch

\* OneListener returned ErrPIDMismatch for LISTEN_PID=12 and a LISTEN_FDS
\* that is not a number.
C2_Witness ==
    \E t \in Threads :
        /\ pc[t] = "ret" /\ cur[t].op = "OneListener"
        /\ loc[t].pidStr = <<"1", "2">> /\ loc[t].nfdsStr = <<"a">>
        /\ ret[t].err = ErrPIDMismatch

\* A non-empty string that is not a decimal integer with an optional sign.
NotANumber(s) ==
    /\ s # <<>>
    /\ \/ s \in {<<"+">>, <<"-">>}
       \/ \E i \in 1..Len(s) :
             ~IsDigit(s[i]) /\ ~(i = 1 /\ s[i] \in {"+", "-"})

\* C3 as stated: whenever the parse reads a LISTEN_PID that is not a number
\* or a LISTEN_FDS that is not a number, Listeners and Files return a
\* non-nil error and no descriptor is flagged or wrapped.
C3_Original ==
    \A t \in Threads :
        (/\ pc[t] = "ret"
         /\ cur[t].op \in {"Listeners", "Files"}
         /\ loc[t].outcome \notin {"none", "cached"}
         /\ (NotANumber(loc[t].pidStr) \/ NotANumber(loc[t].nfdsStr)))
        => (ret[t].err # NoError /\ cloexec = {} /\ nalloc = 0)

\* C3 amended: when LISTEN_PID and LISTEN_FDS are both non-empty and one of
\* them is not a number, Listeners and Files return a nil map and one of
\* the structural errors, and no descriptor is flagged or wrapped.
C3_BadEnvironment ==
    \A t \in Threads :
        (/\ pc[t] = "ret"
         /\ cur[t].op \in {"Listeners", "Files"}
         /\ loc[t].outcome \notin {"none", "cached"}
         /\ loc[t].pidStr # <<>> /\ loc[t].nfdsStr # <<>>
         /\ (NotANumber(loc[t].pidStr) \/ NotANumber(loc[t].nfdsStr)))
        => (/\ ret[t].err \in {ErrBadPID(loc[t].pidStr), ErrPIDMismatch,
                               ErrBadFDS(loc[t].nfdsStr)}
            /\ ret[t].m = NilMap
            /\ cloexec = {} /\ nalloc = 0)

\* Files returned the LISTEN_FDS conversion error for the own pid and
\* LISTEN_FDS=a.
C3_Witness ==
    \E t \in Threads :
        /\ pc[t] = "ret" /\ cur[t].op = "Files"
        /\ loc[t].pidStr = Itoa(Getpid) /\ loc[t].nfdsStr = <<"a">>
        /\ ret[t].err = ErrBadFDS(<<"a">>) /\ ret[t].m = NilMap

\* C4: with the own pid in LISTEN_PID and LISTEN_FDS=0, a call whose parse
\* runs on an empty cache returns: empty non-nil maps and a nil error from
\* Listeners and Files for every LISTEN_FDNAMES, (nil, nil) from
\* OneListener for every name, a nil listener and a non-nil error from
\* Listen("&name").
C4_NoFDs ==
    \A t \in Threads :
        (/\ pc[t] = "ret"
         /\ loc[t].fresh
         /\ loc[t].pidStr = Itoa(Getpid)
         /\ loc[t].nfdsStr = <<"0">>)
        => /\ cur[t].op \in {"Listeners", "Files"}
                => (ret[t].m = EmptyMap /\ ret[t].err = NoError)
           /\ cur[t].op = "OneListener"
                => (ret[t].l = NilLis /\ ret[t].err = NoError)
           /\ cur[t].op = "Listen"
                => (ret[t].l = NilLis /\ ret[t].err # NoError)

\* Listeners returned an empty map and no error for LISTEN_FDS=0 and two
\* names in LISTEN_FDNAMES.
C4_Witness ==
    \E t \in Threads :
        /\ pc[t] = "ret" /\ cur[t].op = "Listeners" /\ loc[t].fresh
        /\ loc[t].pidStr = Itoa(Getpid) /\ loc[t].nfdsStr = <<"0">>
        /\ loc[t].fdNamesStr = <<"a", ":", "a">>
        /\ ret[t].m = EmptyMap /\ ret[t].err = NoError

\* The number of names a non-empty LISTEN_FDNAMES declares.
NameCount(s) == Cardinality({i \in 1..Len(s) : s[i] = ":"}) + 1

\* The descriptors a LISTEN_FDS of n announces.
Inherited(n) == firstFD..(firstFD + n - 1)

\* The entries of a map, and the descriptors they stand for.
Entries(mp) ==
    {e \in (DOMAIN mp.m) \X (1..(MaxFDs + 1)) : e[2] <= Len(mp.m[e[1]])}

FdsOf(mp) == {mp.m[e[1]][e[2]].fd : e \in Entries(mp)}

\* Map mp holds descriptor firstFD + i - 1 under names[i] for i in 1..n, and
\* the entries of every name are in ascending descriptor order.
Grouped(mp, names, n) ==
    /\ ~mp.isnil
    /\ DOMAIN mp.m = {names[i] : i \in 1..n}
    /\ \A k \in DOMAIN mp.m :
         LET seq == mp.m[k]
             P   == {i \in 1..n : names[i] = k}
         IN  /\ Len(seq) = Cardinality(P)
             /\ \A j \in 1..Len(seq) : seq[j].fd - firstFD + 1 \in P
             /\ \A j \in 1..(Len(seq) - 1) : seq[j].fd < seq[j + 1].fd

\* C5: with the own pid, LISTEN_FDS = N > 0, exactly N names and N
\* descriptors that all convert, a parse from an empty cache puts descriptor
\* firstFD+i under the i-th name in the file map and in the listener map,
\* in ascending descriptor order within a name, with one key per distinct
\* name; Files and Listeners return these maps without error.
C5_ManySockets ==
    \A t \in Threads : \A n \in 1..MaxFDs :
        (/\ pc[t] = "ret"
         /\ cur[t].op \in {"Listeners", "Files"}
         /\ loc[t].fresh
         /\ loc[t].pidStr = Itoa(Getpid)
         /\ loc[t].nfdsStr = Itoa(n)
         /\ loc[t].fdNamesStr # <<>>
         /\ NameCount(loc[t].fdNamesStr) = n
         /\ Inherited(n) \subseteq sock)
        => (/\ Grouped(files, Split(loc[t].fdNamesStr), n)
            /\ Grouped(listeners, Split(loc[t].fdNamesStr), n)
            /\ \A k \in DOMAIN files.m : \A j \in 1..Len(files.m[k]) :
                 /\ files.m[k][j].name = k
                 /\ listeners.m[k][j].file = files.m[k][j].id
            /\ ret[t].err = NoError
            /\ ret[t].m = IF cur[t].op = "Files" THEN files ELSE listeners)

\* Listeners returned descriptors 3 and 4 in this order under the one name
\* that LISTEN_FDNAMES=a:a declares twice.
C5_Witness ==
    \E t \in Threads :
        /\ pc[t] = "ret" /\ cur[t].op = "Listeners" /\ loc[t].fresh
        /\ loc[t].nfdsStr = <<"2">> /\ loc[t].fdNamesStr = <<"a", ":", "a">>
        /\ DOMAIN ret[t].m.m = {<<"a">>}
        /\ Len(ret[t].m.m[<<"a">>]) = 2
        /\ ret[t].m.m[<<"a">>][1].fd = firstFD
        /\ ret[t].m.m[<<"a">>][2].fd = firstFD + 1

\* C6: with the own pid, LISTEN_FDS = N > 0 and LISTEN_FDNAMES unset or
\* empty, a parse from an empty cache leaves no parse error and registers
\* the N descriptors, in descriptor order, under the single key "".
C6_NoNames ==
    \A t \in Threads : \A n \in 1..MaxFDs :
        (/\ pc[t] = "ret"
         /\ cur[t].op \in {"Listeners", "Files"}
         /\ loc[t].fresh
         /\ loc[t].pidStr = Itoa(Getpid)
         /\ loc[t].nfdsStr = Itoa(n)
         /\ loc[t].fdNamesStr = <<>>)
        => (/\ parseError = NoError
            /\ DOMAIN files.m = {<<>>}
            /\ Len(files.m[<<>>]) = n
            /\ \A j \in 1..n : files.m[<<>>][j].fd = firstFD + j - 1
            /\ cur[t].op = "Files" => (ret[t].m = files /\ ret[t].err = NoError)
            /\ (cur[t].op = "Listeners" /\ Inherited(n) \subseteq sock)
                 => (/\ ret[t].err = NoError
                     /\ DOMAIN ret[t].m.m = {<<>>}
                     /\ Len(ret[t].m.m[<<>>]) = n
                     /\ \A j \in 1..n :
                          ret[t].m.m[<<>>][j].fd = firstFD + j - 1))

\* Listeners returned two listeners under "" for LISTEN_FDS=2 without
\* LISTEN_FDNAMES.
C6_Witness ==
    \E t \in Threads :
        /\ pc[t] = "ret" /\ cur[t].op = "Listeners" /\ loc[t].fresh
        /\ loc[t].nfdsStr = <<"2">> /\ loc[t].fdNamesStr = <<>>
        /\ ret[t].err = NoError
        /\ DOMAIN ret[t].m.m = {<<>>}
        /\ Len(ret[t].m.m[<<>>]) = 2

\* C7: with the own pid, LISTEN_FDS = N > 0 and a non-empty LISTEN_FDNAMES
\* that declares more or fewer than N names, Listeners, OneListener and
\* Files return a non-nil error and a nil result, and no descriptor is
\* flagged or wrapped.
C7_NameCountMismatch ==
    \A t \in Threads : \A n \in 1..MaxFDs :
        (/\ pc[t] = "ret"
         /\ cur[t].op \in {"Listeners", "OneListener", "Files"}
         /\ loc[t].outcome \notin {"none", "cached"}
         /\ loc[t].pidStr = Itoa(Getpid)
         /\ loc[t].nfdsStr = Itoa(n)
         /\ loc[t].fdNamesStr # <<>>
         /\ NameCount(loc[t].fdNamesStr) # n)
        => (/\ ret[t].err = ErrBadNames
            /\ ret[t].m = NilMap /\ ret[t].l = NilLis
            /\ files = NilMap /\ listeners = NilMap
            /\ cloexec = {} /\ nalloc = 0)

\* OneListener returned the error for one descriptor and two names.
C7_Witness ==
    \E t \in Threads :
        /\ pc[t] = "ret" /\ cur[t].op = "OneListener"
        /\ loc[t].pidStr = Itoa(Getpid)
        /\ loc[t].nfdsStr = <<"1">> /\ loc[t].fdNamesStr = <<"a", ":", "a">>
        /\ ret[t].err = ErrBadNames /\ ret[t].l = NilLis

\* C8: when some of the N > 0 descriptors does not convert to a listener,
\* a parse from an empty cache still wraps all N descriptors: Files returns
\* them all with a nil error, Listeners returns the conversion error and a
\* non-nil map holding exactly the descriptors that converted, OneListener
\* returns (nil, error).
C8_BadFDs ==
    \A t \in Threads : \A n \in 1..MaxFDs :
        (/\ pc[t] = "ret"
         /\ cur[t].op \in {"Listeners", "OneListener", "Files"}
         /\ loc[t].fresh
         /\ loc[t].pidStr = Itoa(Getpid)
         /\ loc[t].nfdsStr = Itoa(n)
         /\ (loc[t].fdNamesStr = <<>> \/ NameCount(loc[t].fdNamesStr) = n)
         /\ ~(Inherited(n) \subseteq sock))
        => /\ cur[t].op = "Files"
                => (/\ ret[t].err = NoError
                    /\ ~ret[t].m.isnil
                    /\ FdsOf(ret[t].m) = Inherited(n)
                    /\ Cardinality(Entries(ret[t].m)) = n)
           /\ cur[t].op = "Listeners"
                => (/\ ret[t].err.kind = ErrListen(0).kind
                    /\ ret[t].err.fd \in Inherited(n) \ sock
                    /\ ~ret[t].m.isnil
                    /\ FdsOf(ret[t].m) = Inherited(n) \cap sock
                    /\ Cardinality(Entries(ret[t].m)) =
                           Cardinality(Inherited(n) \cap sock))
           /\ cur[t].op = "OneListener"
                => (/\ ret[t].l = NilLis
                    /\ ret[t].err.kind = ErrListen(0).kind)

\* Descriptor 3 did not convert, descriptor 4 after it did: Listeners
\* returned the error and a map with the listener of descriptor 4 alone.
C8_Witness ==
    \E t \in Threads :
        /\ pc[t] = "ret" /\ cur[t].op = "Listeners" /\ loc[t].fresh
        /\ loc[t].nfdsStr = <<"2">>
        /\ sock = {firstFD + 1}
        /\ ret[t].err = ErrListen(firstFD)
        /\ FdsOf(ret[t].m) = {firstFD + 1}
        /\ FdsOf(files) = {firstFD, firstFD + 1}

\* C9: once a parse has populated the maps, no later step changes the maps
\* or the two errors, sets a close-on-exec flag, wraps a descriptor or
\* writes the environment (only the host program does, between calls); a
\* later parse returns at "files != nil" without reading the variables,
\* whatever they have been set to; and Files, Listeners and OneListener
\* return the maps, handles and errors as they stood before the call.
C9_Idempotent ==
    [][(~files.isnil /\ \A t \in Threads : pc[t] # "loop")
        => /\ files' = files /\ listeners' = listeners
           /\ parseError' = parseError /\ listenError' = listenError
           /\ cloexec' = cloexec /\ nalloc' = nalloc
           /\ env' # env => \A t \in Threads : pc[t] = "idle"
           /\ \A t \in Threads :
                /\ (pc[t] = "check" /\ pc'[t] # "check")
                     => (/\ pc'[t] = "unlock"
                         /\ loc'[t].outcome = "cached"
                         /\ loc'[t].pidStr = <<>>
                         /\ loc'[t].nfdsStr = <<>>
                         /\ loc'[t].fdNamesStr = <<>>)
                /\ (pc[t] = "read" /\ pc'[t] = "ret")
                     => /\ cur[t].op = "Files"
                             => (ret'[t].m = files
                                 /\ ret'[t].err = parseError)
                        /\ cur[t].op = "Listeners"
                             => (/\ ret'[t].m = listeners
                                 /\ ret'[t].err \in {parseError, listenError}
                                 /\ parseError # NoError
                                      => ret'[t].err = parseError)
                        /\ (/\ cur[t].op = "OneListener"
                            /\ parseError = NoError /\ listenError = NoError
                            /\ cur[t].arg \in DOMAIN listeners.m)
                             => (/\ ret'[t].l = listeners.m[cur[t].arg][1]
                                 /\ ret'[t].err = NoError)
      ]_vars

\* A call returned the cached listeners although LISTEN_PID and LISTEN_FDS,
\* cleared by the parse, had been set again by the host program.
C9_Witness ==
    \E t \in Threads :
        /\ pc[t] = "ret" /\ cur[t].op = "Listeners"
        /\ loc[t].outcome = "cached"
        /\ Getenv(env, "LISTEN_PID") = Itoa(Getpid)
        /\ Getenv(env, "LISTEN_FDS") = <<"1">>
        /\ ret[t].m = listeners
        /\ Cardinality(Entries(listeners)) = 2

\* C10: when a call's parse has reached the materialisation of the
\* descriptors (all converted, none to convert, or some failed to convert),
\* LISTEN_PID, LISTEN_FDS and LISTEN_FDNAMES are unset when the call returns.
C10_EnvironmentCleared ==
    \A t \in Threads :
        (pc[t] = "ret" /\ loc[t].outcome = "go")
        => DOMAIN env \cap EnvNames = {}

\* A call returned after a parse that had read all three variables and in
\* which a descriptor failed to convert, and the three variables are unset.
C10_Witness ==
    \E t \in Threads :
        /\ pc[t] = "ret" /\ loc[t].outcome = "go"
        /\ loc[t].pidStr # <<>> /\ loc[t].nfdsStr = <<"2">>
        /\ loc[t].fdNamesStr # <<>>
        /\ listenError # NoError
        /\ DOMAIN env = {}

\* C11: Listen with an address "&name" returns the structural error or the
\* conversion error as it is, else the first listener of the name, else a
\* nil listener with the "not found" error, and never a newly bound
\* listener; with any other address it returns what net.Listen returns and
\* runs no parse.
C11_Listen ==
    \A t \in Threads :
        (pc[t] = "ret" /\ cur[t].op = "Listen")
        => IF HasPrefix(cur[t].arg, "&")
           THEN /\ ret[t].l.src # "bind"
                /\ parseError # NoError
                     => (ret[t].l = NilLis /\ ret[t].err = parseError)
                /\ (parseError = NoError /\ listenError # NoError)
                     => (ret[t].l = NilLis /\ ret[t].err = listenError)
                /\ (/\ parseError = NoError /\ listenError = NoError
                    /\ Tail(cur[t].arg) \in DOMAIN listeners.m)
                     => (/\ ret[t].l = listeners.m[Tail(cur[t].arg)][1]
                         /\ ret[t].err = NoError)
                /\ (/\ parseError = NoError /\ listenError = NoError
                    /\ Tail(cur[t].arg) \notin DOMAIN listeners.m)
                     => (/\ ret[t].l = NilLis
                         /\ ret[t].err = ErrNotFound(Tail(cur[t].arg)))
           ELSE /\ loc[t].outcome = "none"
                /\ \/ (ret[t].l = BoundLis /\ ret[t].err = NoError)
                   \/ (ret[t].l = NilLis /\ ret[t].err = ErrBind)

\* Listen("&a") returned the conversion error, not "not found", although
\* the name "a" has no listener.
C11_Witness ==
    \E t \in Threads :
        /\ pc[t] = "ret" /\ cur[t].op = "Listen"
        /\ cur[t].arg = <<"&", "a">>
        /\ <<"a">> \notin DOMAIN listeners.m
        /\ ret[t].l = NilLis
        /\ ret[t].err = ErrListen(firstFD)

\* C12: when the parse left neither a structural error nor a conversion
\* error, OneListener(name) returns a nil error and the listener of the
\* lowest descriptor declared under the name, which is the first element of
\* Listeners()[name], or a nil listener when no descriptor was declared
\* under the name.
C12_OneListener ==
    \A t \in Threads :
        (/\ pc[t] = "ret" /\ cur[t].op = "OneListener"
         /\ parseError = NoError /\ listenError = NoError)
        => /\ ret[t].err = NoError
           /\ cur[t].arg \in DOMAIN files.m
                => (/\ ret[t].l = listeners.m[cur[t].arg][1]
                    /\ ret[t].l.file = files.m[cur[t].arg][1].id
                    /\ \A j \in 1..Len(files.m[cur[t].arg]) :
                         ret[t].l.fd <= files.m[cur[t].arg][j].fd)
           /\ cur[t].arg \notin DOMAIN files.m => ret[t].l = NilLis

\* OneListener("a") returned the listener of descriptor 3 when descriptors
\* 3 and 4 were both declared under "a".
C12_Witness ==
    \E t \in Threads :
        /\ pc[t] = "ret" /\ cur[t].op = "OneListener"
        /\ cur[t].arg = <<"a">>
        /\ Len(MapGet(files, <<"a">>)) = 2
        /\ ret[t].err = NoError
        /\ ret[t].l.src = "file" /\ ret[t].l.fd = firstFD

\* C13 as stated: when every descriptor declared under the name converted
\* and a descriptor declared under another name did not, OneListener(name)
\* returns the first listener of the name and a nil error.
C13_Original ==
    \A t \in Threads :
        (/\ pc[t] = "ret" /\ cur[t].op = "OneListener"
         /\ parseError = NoError /\ listenError # NoError
         /\ cur[t].arg \in DOMAIN files.m
         /\ \A j \in 1..Len(files.m[cur[t].arg]) :
              files.m[cur[t].arg][j].fd \in sock)
        => (/\ ret[t].l = listeners.m[cur[t].arg][1]
            /\ ret[t].err = NoError)

\* C13 amended: in that case OneListener(name) returns a nil listener and
\* the conversion error of the other name's descriptor, while the listener
\* map still holds every listener of the name.
C13_AnyFailure ==
    \A t \in Threads :
      /\ (/\ pc[t] = "ret" /\ cur[t].op = "Listeners"
          /\ parseError = NoError /\ listenError # NoError)
         => (ret[t].m = listeners /\ ret[t].err = listenError)
      /\
        (/\ pc[t] = "ret" /\ cur[t].op = "OneListener"
         /\ parseError = NoError /\ listenError # NoError
         /\ cur[t].arg \in DOMAIN files.m
         /\ \A j \in 1..Len(files.m[cur[t].arg]) :
              files.m[cur[t].arg][j].fd \in sock)
        => (/\ ret[t].l = NilLis
            /\ ret[t].err = listenError
            /\ ret[t].err.fd \notin sock
            /\ \A j \in 1..Len(files.m[cur[t].arg]) :
                 ret[t].err.fd # files.m[cur[t].arg][j].fd
            /\ Len(MapGet(listeners, cur[t].arg)) =
                   Len(files.m[cur[t].arg]))

\* OneListener("a") returned the error of descriptor 4, declared under "",
\* although descriptor 3, declared under "a", had converted.
C13_Witness ==
    \E t \in Threads :
        /\ pc[t] = "ret" /\ cur[t].op = "OneListener"
        /\ cur[t].arg = <<"a">>
        /\ FdsOf(listeners) = {firstFD}
        /\ DOMAIN files.m = {<<>>, <<"a">>}
        /\ ret[t].l = NilLis
        /\ ret[t].err = ErrListen(firstFD + 1)

\* C20: when LISTEN_PID and LISTEN_FDS are both set, the first failing check
\* in the order "LISTEN_PID is a number, LISTEN_PID is the own pid,
\* LISTEN_FDS is a number, the names are as many as the descriptors" alone
\* determines the error Listeners, Files and OneListener return, whatever
\* the later checks would have found.
C20_ValidationOrder ==
    \A t \in Threads :
        (/\ pc[t] = "ret"
         /\ cur[t].op \in {"Listeners", "Files", "OneListener"}
         /\ loc[t].outcome \notin {"none", "cached"}
         /\ loc[t].pidStr # <<>> /\ loc[t].nfdsStr # <<>>)
        => IF NotANumber(loc[t].pidStr)
           THEN ret[t].err = ErrBadPID(loc[t].pidStr)
           ELSE IF Atoi(loc[t].pidStr).n # Getpid
           THEN ret[t].err = ErrPIDMismatch
           ELSE IF NotANumber(loc[t].nfdsStr)
           THEN ret[t].err = ErrBadFDS(loc[t].nfdsStr)
           ELSE IF /\ loc[t].fdNamesStr # <<>>
                   /\ \E n \in 1..MaxFDs :
                        /\ loc[t].nfdsStr = Itoa(n)
                        /\ NameCount(loc[t].fdNamesStr) # n
           THEN ret[t].err = ErrBadNames
           ELSE ret[t].err \in {NoError, listenError}

\* Files returned the malformed-PID error for a LISTEN_PID and a LISTEN_FDS
\* that are both not numbers.
C20_Witness ==
    \E t \in Threads :
        /\ pc[t] = "ret" /\ cur[t].op = "Files"
        /\ loc[t].pidStr = <<"a">> /\ loc[t].nfdsStr = <<"a">>
        /\ ret[t].err = ErrBadPID(<<"a">>)

\* C17 as stated: whenever the maps are populated, for every name the file
\* sequence and the listener sequence have the same length and the listener
\* at index i was built from the file at index i, also after a descriptor
\* failed to convert.
C17_Original ==
    ~files.isnil
    => \A name \in DOMAIN files.m :
         /\ Len(MapGet(listeners, name)) = Len(files.m[name])
         /\ \A i \in 1..Len(MapGet(listeners, name)) :
              listeners.m[name][i].file = files.m[name][i].id

\* A file whose descriptor net.FileListener accepts.
Converted(f) == f.fd \in sock

\* C17 amended: whenever the maps are populated, the listeners of a name
\* are built, in order, from those files of the name whose descriptor
\* converted; a name has a listener entry only if one of its descriptors
\* converted; the two maps are index-aligned when no conversion failed.
C17_ConvertedAligned ==
    ~files.isnil
    => /\ ~listeners.isnil
       /\ DOMAIN listeners.m \subseteq DOMAIN files.m
       /\ \A name \in DOMAIN files.m :
            LET fs == SelectSeq(files.m[name], Converted)
                ls == MapGet(listeners, name)
            IN  /\ Len(ls) = Len(fs)
                /\ \A i \in 1..Len(ls) :
                     /\ ls[i].src = "file"
                     /\ ls[i].file = fs[i].id
                     /\ ls[i].fd = fs[i].fd
                /\ name \in DOMAIN listeners.m <=> Len(fs) >= 1
                /\ listenError = NoError => fs = files.m[name]

\* Descriptors 3 and 4 were declared under "a" and only 4 converted: the
\* first listener of "a" was built from the second file of "a".
C17_Witness ==
    /\ Len(MapGet(files, <<"a">>)) = 2
    /\ Len(MapGet(listeners, <<"a">>)) = 1
    /\ listeners.m[<<"a">>][1].file = files.m[<<"a">>][2].id
    /\ listeners.m[<<"a">>][1].fd = firstFD + 1

\* C18 as stated: once a parse has populated the file map, the map holds
\* exactly as many entries as LISTEN_FDS said, one per descriptor of
\* firstFD .. firstFD + LISTEN_FDS - 1 and none outside, each under the name
\* declared at its index, and exactly those descriptors are close-on-exec.
\* Read where the thread that ran the parse still holds what it read.
C18_ExactlyFDCount ==
    \A t \in Threads :
        (/\ pc[t] \in {"unlock", "read", "ret"}
         /\ loc[t].outcome = "go"
         /\ ~files.isnil)
        => LET n == Atoi(loc[t].nfdsStr).n
           IN  /\ Cardinality(Entries(files)) = n
               /\ FdsOf(files) = Inherited(n)
               /\ cloexec = Inherited(n)
               /\ Grouped(files, loc[t].fdNames, n)

\* C15 as stated: once the first parse of the process has ended in a
\* structural error, no later step changes the cached maps or errors, sets
\* a close-on-exec flag or wraps a descriptor, even after the host has set
\* the LISTEN_* variables to valid values.
C15_Frozen ==
    [][first = "fail"
       => /\ cache' = cache
          /\ cloexec' = cloexec
          /\ nalloc' = nalloc]_vars

\* C16 as stated: once the first parse of the process has found the
\* activation variables absent, the cache stays as it is, no descriptor is
\* ever flagged or wrapped, and Listeners, Files and OneListener keep
\* returning a nil result and a nil error, even after the host has set
\* valid LISTEN_PID and LISTEN_FDS.
C16_EmptyFrozen ==
    first = "empty"
    => /\ files.isnil /\ listeners.isnil
       /\ parseError = NoError /\ listenError = NoError
       /\ cloexec = {} /\ nalloc = 0
       /\ \A t \in Threads :
            (/\ pc[t] = "ret"
             /\ cur[t].op \in {"Listeners", "Files", "OneListener"})
            => (/\ ret[t].m = NilMap /\ ret[t].l = NilLis
                /\ ret[t].err = NoError)

\* What a call that returns finds when the process started with a valid
\* activation environment (the first parse got past the validation): the
\* complete maps, every announced descriptor flagged and wrapped, the
\* environment cleared, and no goroutine still in the loop of parse.
C14_Returned ==
    \A t \in Threads :
        (pc[t] = "ret" /\ first = "go")
        => /\ Cardinality(Entries(files)) = MaxFDs
           /\ FdsOf(files) = Inherited(MaxFDs)
           /\ cloexec = Inherited(MaxFDs)
           /\ FdsOf(listeners) = Inherited(MaxFDs) \cap sock
           /\ DOMAIN env = {}
           /\ \A u \in Threads : pc[u] # "loop"
           /\ cur[t].op = "Files"
                => (ret[t].m = files /\ ret[t].err = NoError)
           /\ cur[t].op = "Listeners" => ret[t].m = listeners
           /\ (/\ cur[t].op \in {"OneListener", "Listen"}
               /\ listenError = NoError
               /\ <<"a">> \in DOMAIN listeners.m)
                => ret[t].l = listeners.m[<<"a">>][1]

\* C14: with goroutines calling Listeners, Files, OneListener and
\* Listen("&name") concurrently, in every interleaving the materialisation
\* starts once, from an empty cache; every wrap is of a descriptor that was
\* neither flagged nor wrapped before; the environment changes once, to
\* empty; and every call of a process started with a valid environment
\* returns the same complete maps.
C14_ExactlyOnce ==
    [][/\ files' # files
          => \/ /\ files.isnil /\ files' = EmptyMap
                /\ cloexec = {} /\ nalloc = 0
             \/ /\ ~files.isnil
                /\ Cardinality(cloexec') = Cardinality(cloexec) + 1
                /\ Cardinality(Entries(files')) =
                       Cardinality(Entries(files)) + 1
                /\ FdsOf(files') = cloexec'
       /\ cloexec' # cloexec => files' # files
       /\ env' # env => (DOMAIN env # {} /\ DOMAIN env' = {})
       /\ C14_Returned']_vars

\* Two goroutines have returned from Files with the same complete map: one
\* ran the materialisation, the other found it done.
C14_Witness ==
    \E a, b \in Threads :
        /\ pc[a] = "ret" /\ pc[b] = "ret"
        /\ cur[a].op = "Files" /\ cur[b].op = "Files"
        /\ loc[a].outcome = "go" /\ loc[b].outcome = "cached"
        /\ ret[a].m = ret[b].m
        /\ Cardinality(Entries(ret[a].m)) = MaxFDs

\* The package variables the next step of goroutine t reads after parse has
\* released the mutex (lines 141-144, 158-165, 224).
ReadsUnlocked(t) ==
    IF pc[t] # "read" THEN {}
    ELSE IF cur[t].op = "Files" THEN {"files", "parseError"}
    ELSE {"listeners", "parseError", "listenError"}

\* The package variables the next step of goroutine t writes inside the
\* critical section of parse (lines 58, 62, 68, 82, 88-89, 100, 106, 109).
WritesLocked(t) ==
    IF pc[t] = "check" /\ ~Parsed(files)
    THEN LET v == Validate(Getenv(env, "LISTEN_PID"),
                           Getenv(env, "LISTEN_FDS"),
                           Getenv(env, "LISTEN_FDNAMES"))
         IN  IF v.outcome = "fail" THEN {"parseError"}
             ELSE IF v.outcome = "go" THEN {"files", "listeners"}
             ELSE {}
    ELSE IF pc[t] = "loop" /\ loc[t].i < loc[t].nfds
    THEN {"files", "listeners", "listenError"}
    ELSE {}

\* C19 as stated: in no reachable state is one goroutine about to read a
\* package variable outside the mutex while another goroutine, inside the
\* critical section of parse, is about to write that variable.
C19_NoRace ==
    \A a, b \in Threads :
        a # b => ReadsUnlocked(a) \cap WritesLocked(b) = {}

\* C21 as stated: when the parse reads the own pid in LISTEN_PID and a
\* negative number in LISTEN_FDS, Listeners and Files return a nil map and
\* the malformed-LISTEN_FDS error, no map is created, and the environment
\* is left as it was.
C21_NegativeFDS ==
    \A t \in Threads :
        (/\ pc[t] = "ret"
         /\ cur[t].op \in {"Listeners", "Files"}
         /\ loc[t].outcome \notin {"none", "cached"}
         /\ loc[t].pidStr = Itoa(Getpid)
         /\ ~Atoi(loc[t].nfdsStr).err
         /\ Atoi(loc[t].nfdsStr).n < 0)
        => /\ ret[t].err = ErrBadFDS(loc[t].nfdsStr)
           /\ ret[t].m = NilMap
           /\ files.isnil /\ listeners.isnil
           /\ Getenv(env, "LISTEN_FDS") = loc[t].nfdsStr
           /\ Getenv(env, "LISTEN_PID") = loc[t].pidStr

\* C22: a parse that ends in a structural error or finds the activation
\* variables absent leaves LISTEN_PID, LISTEN_FDS and LISTEN_FDNAMES as it
\* read them, sets no close-on-exec flag, wraps nothing and leaves both
\* maps nil, up to the return of the call.
C22_FailureLeavesEnv ==
    \A t \in Threads :
        (/\ pc[t] \in {"unlock", "read", "ret"}
         /\ loc[t].outcome \in {"fail", "empty"})
        => /\ Getenv(env, "LISTEN_PID") = loc[t].pidStr
           /\ Getenv(env, "LISTEN_FDS") = loc[t].nfdsStr
           /\ Getenv(env, "LISTEN_FDNAMES") = loc[t].fdNamesStr
           /\ cloexec = {} /\ nalloc = 0
           /\ files.isnil /\ listeners.isnil

\* Files returned the name-count error and the three variables are still
\* set as the parse read them.
C22_Witness ==
    \E t \in Threads :
        /\ pc[t] = "ret" /\ cur[t].op = "Files"
        /\ ret[t].err = ErrBadNames
        /\ Getenv(env, "LISTEN_PID") = Itoa(Getpid)
        /\ Getenv(env, "LISTEN_FDS") = Itoa(1)
        /\ Getenv(env, "LISTEN_FDNAMES") = <<"a", ":", "a">>

\* C23: from the call of Listen with an address that does not begin with
\* "&" to its result, no step runs the parse or takes the mutex, the cached
\* maps and errors, the three variables and the descriptors' flags stay as
\* they were, and the result is what net.Listen gives, never an error of
\* the activation environment.
C23_PlainListen ==
    [][\A t \in Threads :
         (cur'[t].op = "Listen" /\ ~HasPrefix(cur'[t].arg, "&"))
         => /\ cache' = cache
            /\ env' = env
            /\ cloexec' = cloexec /\ nalloc' = nalloc
            /\ mutex' = mutex
            /\ loc'[t].outcome = "none"
            /\ pc'[t] \in {"bind", "ret"}
            /\ pc'[t] = "ret"
                 => \/ (ret'[t].l = BoundLis /\ ret'[t].err = NoError)
                    \/ (ret'[t].l = NilLis /\ ret'[t].err = ErrBind)]_vars

\* Listen(":0") returned a bound listener in a process whose LISTEN_PID is
\* not a number, and nothing was parsed.
C23_Witness ==
    \E t \in Threads :
        /\ pc[t] = "ret" /\ cur[t].op = "Listen"
        /\ cur[t].arg = <<":", "0">>
        /\ Getenv(env, "LISTEN_PID") = <<"a">>
        /\ Getenv(env, "LISTEN_FDS") = Itoa(1)
        /\ ret[t].l = BoundLis /\ ret[t].err = NoError
        /\ parseError = NoError /\ first = "unparsed"

\* C24: under fair scheduling every call of Listeners, Files, OneListener
\* or Listen("&name") by any of the concurrent goroutines returns, whatever
\* path its parse takes, and the mutex is held by a goroutine exactly while
\* that goroutine is inside parse: it is free again once the parse ends.
C24_Terminates ==
    /\ [](\A t \in Threads :
            mutex = t <=> pc[t] \in {"check", "loop", "unlock"})
    /\ \A t \in Threads : (pc[t] = "lock") ~> (pc[t] = "ret")
    /\ \A t \in Threads : (mutex = t) ~> (mutex # t)

\* Every goroutine has returned from its call and the mutex is free, after
\* a parse in which a descriptor failed to convert.
C24_Witness ==
    /\ \A t \in Threads : pc[t] = "ret"
    /\ mutex = 0
    /\ listenError # NoError
    /\ \E t \in Threads : loc[t].outcome = "go"
    /\ \E t \in Threads : loc[t].outcome = "cached"

====
